---- MODULE Spec2Model ----
(***************************************************************************)
(* nextdoor: a frame-kind router with typed extraction (lib.rs,            *)
(* handler.rs, extract.rs, request.rs, response.rs, error.rs) and the      *)
(* client connection runtime that drives it (client.rs).                   *)
(*                                                                         *)
(* Byte buffers and Strings are sequences of byte values; a String is a    *)
(* byte sequence that is valid UTF-8.  A fixed message literal of the      *)
(* source is one negative unit of a String (Lit...), so every body is a    *)
(* sequence of integers.                                                   *)
(***************************************************************************)
EXTENDS Integers, Sequences, FiniteSets, TLC

VARIABLES
    route,            \* NextDoor.route : Frames -> Seq(handler); <<>> = no entry
    state,            \* NextDoor.state : the shared context
    capacity,         \* Client.capacity
    reconnect_config, \* Client.reconnect_config : NoConfig or a ReconnectConfig
    pc,               \* position of Client::run
    current_url,      \* run: current_url
    retry_count,      \* run: retry_count
    delay,            \* run: delay
    result,           \* what run returned ("none" while running)
    reader,           \* receive_messages task of the current connection
    reader_result,    \* its return value (should_reconnect, maybe_new_url)
    pending,          \* the message the reader is blocked sending (channel full)
    writer,           \* send_messages task of the current connection
    chan,             \* the mpsc channel's queue
    shutdown_fired,   \* ctrl-c has arrived, and no select! has begun or ended since
    last_out,         \* outcome of the dispatch made by the step just taken
    slept,            \* history: the backoff delays slept, in order
    ever_connected,   \* history: some connect_async call has succeeded
    failures,         \* history: number of failed connect_async calls
    oks,              \* history: bodies of the OK dispatches of this connection
    enqueued,         \* history: bodies tx.send has put into the channel
    wire,             \* history: bodies send_messages has passed to write.send
    probe             \* a conversion applied on its own: operation, argument, value

vars == <<route, state, capacity, reconnect_config, pc, current_url,
          retry_count, delay, result, reader, reader_result, pending, writer,
          chan, shutdown_fired, last_out, slept, ever_connected, failures,
          oks, enqueued, wire, probe>>

(***************************************************************************)
(* Bounds of the model.                                                    *)
(***************************************************************************)
MaxBodyLen == 2
MaxHandlers == 2
MaxCapacity == 2
MaxOutbound == 3
MaxNesting == 2

(***************************************************************************)
(* Bytes, Strings                                                          *)
(***************************************************************************)
\* '1', and the two bytes of U+00E9: 0xC3 0xA9
ByteVals == {49, 195, 169}

RECURSIVE SeqsUpTo(_, _)
SeqsUpTo(S, n) ==
    IF n = 0 THEN {<<>>}
    ELSE LET shorter == SeqsUpTo(S, n - 1)
         IN  shorter \cup {Append(s, x) : s \in {t \in shorter : Len(t) = n - 1}, x \in S}

Bodies == SeqsUpTo(ByteVals, MaxBodyLen)

IsCont(b) == b >= 128 /\ b <= 191

\* Length of the well-formed UTF-8 sequence starting at b[i], 0 if there is none
\* (the validation String::from_utf8 performs).
Utf8SeqLen(b, i) ==
    LET n == Len(b)
        x == b[i]
        c(k) == i + k <= n /\ IsCont(b[i + k])
        r(k, lo, hi) == i + k <= n /\ b[i + k] >= lo /\ b[i + k] <= hi
    IN  IF x < 0 THEN 1
        ELSE IF x < 128 THEN 1
        ELSE IF x >= 194 /\ x <= 223 THEN (IF c(1) THEN 2 ELSE 0)
        ELSE IF x = 224 THEN (IF r(1, 160, 191) /\ c(2) THEN 3 ELSE 0)
        ELSE IF x = 237 THEN (IF r(1, 128, 159) /\ c(2) THEN 3 ELSE 0)
        ELSE IF x >= 225 /\ x <= 239 THEN (IF c(1) /\ c(2) THEN 3 ELSE 0)
        ELSE IF x = 240 THEN (IF r(1, 144, 191) /\ c(2) /\ c(3) THEN 4 ELSE 0)
        ELSE IF x >= 241 /\ x <= 243 THEN (IF c(1) /\ c(2) /\ c(3) THEN 4 ELSE 0)
        ELSE IF x = 244 THEN (IF r(1, 128, 143) /\ c(2) /\ c(3) THEN 4 ELSE 0)
        ELSE 0

RECURSIVE Utf8From(_, _)
Utf8From(b, i) ==
    IF i > Len(b) THEN TRUE
    ELSE LET k == Utf8SeqLen(b, i)
         IN  IF k = 0 THEN FALSE ELSE Utf8From(b, i + k)

\* Request::try_to_string: String::from_utf8(self.body.to_vec())
try_to_string(req) ==
    IF Utf8From(req.body, 1) THEN [ok |-> TRUE, val |-> req.body]
    ELSE [ok |-> FALSE, val |-> <<>>]

to_vec(req) == req.body

is_empty(req) == Len(req.body) = 0

(***************************************************************************)
(* Frames, Request, Status, Response                                       *)
(***************************************************************************)
Frames == {"Text", "Binary", "Close", "Ping", "Pong"}

Request(path, body) == [path |-> path, body |-> body]

\* enum Status of response.rs
SourceStatus == {"OK", "NoContent", "NotFound", "NotImplemented", "JsonError",
                 "NotFountPath", "FromStringError"}

\* ... and the Reconnect member that client.rs and tests/response.rs use
Status == SourceStatus \cup {"Reconnect"}

Response(status, body) == [status |-> status, body |-> body]

is_success(status) == status = "OK"

\* Status::is_reconnect, called by handle_message and by tests/response.rs
is_reconnect(status) == status = "Reconnect"

\* message literals of the source, each one unit of a String
LitFromStringError == -1
LitJsonError == -2
LitNotFound == -3
\* the text of serde_json's error for a map whose keys are no strings
LitKeyMustBeString == -4

(***************************************************************************)
(* JSON as serde_json reads and writes it, for the two payload types the   *)
(* model uses: an unsigned integer (the T of Json<T>) and CloseFrame.      *)
(* The bodies of the model hold no white space and no control character.   *)
(***************************************************************************)
IsDigit(b) == b >= 48 /\ b <= 57

RECURSIVE DecValue(_, _)
DecValue(s, n) == IF n = 0 THEN 0 ELSE 10 * DecValue(s, n - 1) + (s[n] - 48)

RECURSIVE DecDigits(_)
DecDigits(n) == IF n < 10 THEN <<48 + n>> ELSE Append(DecDigits(n \div 10), 48 + (n % 10))

\* serde_json::from_str::<u64>: digits, no leading zero
json_from_str(s) ==
    IF /\ Len(s) >= 1
       /\ \A i \in 1..Len(s) : IsDigit(s[i])
       /\ (Len(s) = 1 \/ s[1] # 48)
    THEN [ok |-> TRUE, val |-> DecValue(s, Len(s))]
    ELSE [ok |-> FALSE, val |-> 0]

\* serde_json::to_string of an unsigned integer
json_to_string(n) == DecDigits(n)

\* {"reason":"   and   ","code":   in bytes
CloseOpen == <<123, 34, 114, 101, 97, 115, 111, 110, 34, 58, 34>>
CloseMid == <<34, 44, 34, 99, 111, 100, 101, 34, 58>>

RECURSIVE JsonEscape(_)
JsonEscape(s) ==
    IF s = <<>> THEN <<>>
    ELSE LET x == Head(s)
         IN  (IF x = 34 \/ x = 92 THEN <<92, x>> ELSE <<x>>) \o JsonEscape(Tail(s))

\* close_to_string writing the reason as it is, quotes and backslashes too
close_to_string_Unescaped(reason, code) ==
    CloseOpen \o reason \o CloseMid \o DecDigits(code) \o <<125>>

\* serde_json::to_string(&CloseFrame { reason, code })
close_to_string(reason, code) ==
    CloseOpen \o JsonEscape(reason) \o CloseMid \o DecDigits(code) \o <<125>>

HasPrefixAt(s, i, p) ==
    /\ i + Len(p) - 1 <= Len(s)
    /\ \A k \in 1..Len(p) : s[i + k - 1] = p[k]

\* Scan a JSON string body from s[i]: the unescaped text and the index of the
\* closing quote (0: unterminated or a bad escape).
RECURSIVE ScanString(_, _, _)
ScanString(s, i, acc) ==
    IF i > Len(s) THEN [end |-> 0, val |-> acc]
    ELSE IF s[i] = 34 THEN [end |-> i, val |-> acc]
    ELSE IF s[i] = 92
         THEN IF i + 1 <= Len(s) /\ s[i + 1] \in {34, 92}
              THEN ScanString(s, i + 2, Append(acc, s[i + 1]))
              ELSE [end |-> 0, val |-> acc]
    ELSE ScanString(s, i + 1, Append(acc, s[i]))

\* serde_json::from_str::<CloseFrame> on the encoding close_to_string writes
close_from_str(s) ==
    LET bad == [ok |-> FALSE, reason |-> <<>>, code |-> 0]
    IN  IF ~HasPrefixAt(s, 1, CloseOpen) THEN bad
        ELSE LET str == ScanString(s, Len(CloseOpen) + 1, <<>>)
             IN  IF str.end = 0 \/ ~HasPrefixAt(s, str.end, CloseMid) THEN bad
                 ELSE LET from == str.end + Len(CloseMid)
                          digits == SubSeq(s, from, Len(s) - 1)
                          num == json_from_str(digits)
                      IN  IF /\ Len(s) >= from
                             /\ s[Len(s)] = 125
                             /\ num.ok
                             /\ num.val < 65536
                          THEN [ok |-> TRUE, reason |-> str.val, code |-> num.val]
                          ELSE bad

(***************************************************************************)
(* Transport messages and Request::from_ws_message                         *)
(***************************************************************************)
\* Option<CloseFrame> of request.rs: code is a u16
NoClose == [some |-> FALSE, reason |-> <<>>, code |-> 0]

SomeClose(reason, code) == [some |-> TRUE, reason |-> reason, code |-> code]

\* tungstenite's CloseCode: an enum whose variants Reserved, Iana, Library and
\* Bad carry the u16, the others stand for one code each
CloseCode(variant, code) == [variant |-> variant, code |-> code]

NamedCloseCodes ==
    {<<1000, "Normal">>, <<1001, "Away">>, <<1002, "Protocol">>,
     <<1003, "Unsupported">>, <<1005, "Status">>, <<1006, "Abnormal">>,
     <<1007, "Invalid">>, <<1008, "Policy">>, <<1009, "Size">>,
     <<1010, "Extension">>, <<1011, "Error">>, <<1012, "Restart">>,
     <<1013, "Again">>, <<1015, "Tls">>}

\* CloseCode::from(data.code)
CloseCodeFrom(code) ==
    IF \E n \in NamedCloseCodes : n[1] = code
    THEN CloseCode((CHOOSE n \in NamedCloseCodes : n[1] = code)[2], code)
    ELSE IF code >= 1016 /\ code <= 2999 THEN CloseCode("Reserved", code)
    ELSE IF code >= 3000 /\ code <= 3999 THEN CloseCode("Iana", code)
    ELSE IF code >= 4000 /\ code <= 4999 THEN CloseCode("Library", code)
    ELSE CloseCode("Bad", code)

\* f.code.into()
CloseCodeInto(c) == c.code

\* Option<tungstenite CloseFrame>: code is a CloseCode
TNoClose == [some |-> FALSE, reason |-> <<>>, code |-> CloseCode("Bad", 0)]

TCloseFrame(reason, code) == [some |-> TRUE, reason |-> reason, code |-> code]

Message(kind, data) == [kind |-> kind, data |-> data, close |-> TNoClose]

CloseMessage(frame) == [kind |-> "Close", data |-> <<>>, close |-> frame]

\* from_ws_message taking a raw frame for Text
from_ws_message_FrameAsText(message) ==
    CASE message.kind = "Text" -> Request("Text", message.data)
      [] message.kind = "Binary" -> Request("Binary", message.data)
      [] message.kind = "Ping" -> Request("Ping", message.data)
      [] message.kind = "Pong" -> Request("Pong", message.data)
      [] message.kind = "Close" ->
            Request("Close",
                    IF message.close.some
                    THEN close_to_string(message.close.reason,
                                         CloseCodeInto(message.close.code))
                    ELSE <<>>)
      [] message.kind = "Frame" -> Request("Text", message.data)

from_ws_message(message) ==
    CASE message.kind = "Text" -> Request("Text", message.data)
      [] message.kind = "Binary" -> Request("Binary", message.data)
      [] message.kind = "Ping" -> Request("Ping", message.data)
      [] message.kind = "Pong" -> Request("Pong", message.data)
      [] message.kind = "Close" ->
            Request("Close",
                    IF message.close.some
                    THEN close_to_string(message.close.reason,
                                         CloseCodeInto(message.close.code))
                    ELSE <<>>)
      [] message.kind = "Frame" -> Request("Binary", message.data)

\* into_ws_message panicked (an unwrap() on Err): no Message
PanicMessage == [kind |-> "panic", data |-> <<>>, close |-> TNoClose]

\* into_ws_message without the is_empty test of the Close arm
into_ws_message_NoEmptyTest(req) ==
    CASE req.path = "Text" ->
            LET str == try_to_string(req)
            IN  IF str.ok THEN Message("Text", str.val) ELSE PanicMessage
      [] req.path = "Binary" -> Message("Binary", to_vec(req))
      [] req.path = "Ping" -> Message("Ping", to_vec(req))
      [] req.path = "Pong" -> Message("Pong", to_vec(req))
      [] req.path = "Close" ->
            LET str == try_to_string(req)
            IN  IF ~str.ok THEN PanicMessage
                ELSE LET data == close_from_str(str.val)
                     IN  IF ~data.ok THEN PanicMessage
                         ELSE CloseMessage(TCloseFrame(data.reason,
                                                       CloseCodeFrom(data.code)))

\* Request::into_ws_message: the unwrap() calls panic on a body that is no
\* String, or no encoding of a CloseFrame
into_ws_message(req) ==
    CASE req.path = "Text" ->
            LET str == try_to_string(req)
            IN  IF str.ok THEN Message("Text", str.val) ELSE PanicMessage
      [] req.path = "Binary" -> Message("Binary", to_vec(req))
      [] req.path = "Ping" -> Message("Ping", to_vec(req))
      [] req.path = "Pong" -> Message("Pong", to_vec(req))
      [] req.path = "Close" ->
            IF is_empty(req) THEN CloseMessage(TNoClose)
            ELSE LET str == try_to_string(req)
                 IN  IF ~str.ok THEN PanicMessage
                     ELSE LET data == close_from_str(str.val)
                          IN  IF ~data.ok THEN PanicMessage
                              ELSE CloseMessage(TCloseFrame(data.reason,
                                                            CloseCodeFrom(data.code)))

(***************************************************************************)
(* Response conversion (IntoResponse)                                      *)
(***************************************************************************)
\* return values of handler bodies and rejections of extractors
Unit == [t |-> "unit"]
StatusValue(s) == [t |-> "status", status |-> s]
StringValue(b) == [t |-> "string", body |-> b]
ResultValue(isOk, inner) == [t |-> "result", ok |-> isOk, inner |-> inner]
OptionValue(isSome, inner) == [t |-> "option", some |-> isSome, inner |-> inner]
JsonValue(n) == [t |-> "json", payload |-> n]
CustomValue(resp) == [t |-> "custom", resp |-> resp]
ExtractError(kind) == [t |-> "extract_error", kind |-> kind]
\* Json(m), m a map with tuple keys: serde_json::to_string(&m) is Err
JsonMapValue == [t |-> "json_map"]
\* a (Status, String) pair, as tests/response.rs converts it
PairValue(s, b) == [t |-> "pair", status |-> s, body |-> b]

\* impl IntoResponse for (Status, String)
pair_into_response(v) == Response(v.status, v.body)

\* into_response converting the Err arm of a Result to NotFound
RECURSIVE into_response_ErrAsNotFound(_)
into_response_ErrAsNotFound(v) ==
    CASE v.t = "unit" -> Response("NoContent", <<>>)
      [] v.t = "status" -> Response(v.status, <<>>)
      [] v.t = "pair" -> pair_into_response(v)
      [] v.t = "string" -> Response("OK", v.body)
      [] v.t = "result" ->
            IF v.ok THEN into_response_ErrAsNotFound(v.inner)
            ELSE Response("NotFound", into_response_ErrAsNotFound(v.inner).body)
      [] v.t = "option" ->
            IF v.some THEN into_response_ErrAsNotFound(v.inner)
            ELSE Response("NotFound", <<LitNotFound>>)
      [] v.t = "json" -> Response("OK", json_to_string(v.payload))
      [] v.t = "json_map" -> Response("JsonError", <<LitKeyMustBeString>>)
      [] v.t = "custom" -> v.resp
      [] v.t = "extract_error" ->
            IF v.kind = "FromStringError"
            THEN Response("FromStringError", <<LitFromStringError>>)
            ELSE Response("JsonError", <<LitJsonError>>)

RECURSIVE into_response(_)
into_response(v) ==
    CASE v.t = "unit" -> Response("NoContent", <<>>)
      [] v.t = "status" -> Response(v.status, <<>>)
      [] v.t = "pair" -> pair_into_response(v)
      [] v.t = "string" -> Response("OK", v.body)
      [] v.t = "result" -> into_response(v.inner)
      [] v.t = "option" ->
            IF v.some THEN into_response(v.inner)
            ELSE Response("NotFound", <<LitNotFound>>)
      [] v.t = "json" -> Response("OK", json_to_string(v.payload))
      [] v.t = "json_map" -> Response("JsonError", <<LitKeyMustBeString>>)
      [] v.t = "custom" -> v.resp
      [] v.t = "extract_error" ->
            IF v.kind = "FromStringError"
            THEN Response("FromStringError", <<LitFromStringError>>)
            ELSE Response("JsonError", <<LitJsonError>>)

(***************************************************************************)
(* Extractors (FromMesasge)                                                *)
(***************************************************************************)
Extractors == {"String", "Json", "State", "Close", "Binary", "Ping", "Pong"}

Extracted(val) == [ok |-> TRUE, panic |-> FALSE, val |-> val, rej |-> Unit]
Rejected(kind) == [ok |-> FALSE, panic |-> FALSE, val |-> <<>>, rej |-> ExtractError(kind)]
Panicked == [ok |-> FALSE, panic |-> TRUE, val |-> <<>>, rej |-> Unit]

\* JsonCall parsing the bytes as JSON before it looks at their encoding
JsonCall_JsonFirst(req, st) ==
    LET parsed == json_from_str(to_vec(req))
    IN  IF ~parsed.ok THEN Rejected("JsonError")
        ELSE IF ~try_to_string(req).ok THEN Rejected("FromStringError")
        ELSE Extracted(parsed.val)

\* impl FromMesasge for Json<T>, T an unsigned integer
JsonCall(req, st) ==
    LET str == try_to_string(req)
    IN  IF ~str.ok THEN Rejected("FromStringError")
        ELSE LET parsed == json_from_str(str.val)
             IN  IF ~parsed.ok THEN Rejected("JsonError")
                 ELSE Extracted(parsed.val)

\* StateCall building its value from the request
StateCall_FromRequest(req, st) == Extracted(to_vec(req))

\* impl FromMesasge for State<S>
StateCall(req, st) == Extracted(st)

\* impl FromMesasge for Close: both unwrap() calls panic on Err
CloseCall(req, st) ==
    IF is_empty(req) THEN Extracted(NoClose)
    ELSE LET str == try_to_string(req)
         IN  IF ~str.ok THEN Panicked
             ELSE LET parsed == close_from_str(str.val)
                  IN  IF ~parsed.ok THEN Panicked
                      ELSE Extracted(SomeClose(parsed.reason, parsed.code))

\* impl FromMesasge for String
StringCall(req, st) ==
    LET str == try_to_string(req)
    IN  IF str.ok THEN Extracted(str.val) ELSE Rejected("FromStringError")

\* impl_from_message!(Binary, Ping, Pong)
BytesCall(req, st) == Extracted(to_vec(req))

FromMesasge(ex, req, st) ==
    CASE ex = "String" -> StringCall(req, st)
      [] ex = "Json" -> JsonCall(req, st)
      [] ex = "State" -> StateCall(req, st)
      [] ex = "Close" -> CloseCall(req, st)
      [] ex \in {"Binary", "Ping", "Pong"} -> BytesCall(req, st)

(***************************************************************************)
(* Handlers (handler.rs)                                                   *)
(*                                                                         *)
(* A handler is its declared parameter list (one extractor per parameter)  *)
(* and its body.  A body is user code; the model has three shapes of it:   *)
(*   const : returns a fixed value, whatever the arguments                 *)
(*   join  : returns the String made of its arguments, in order            *)
(*   json  : returns Json(its last argument)                               *)
(***************************************************************************)
Handler(params, body) == [params |-> params, body |-> body]

ConstBody(value) == [k |-> "const", value |-> value]
JoinBody == [k |-> "join", value |-> Unit]
JsonBody == [k |-> "json", value |-> Unit]

RECURSIVE Concat(_)
Concat(args) == IF args = <<>> THEN <<>> ELSE Head(args) \o Concat(Tail(args))

\* self($($ty,)*): the value the handler body returns for these arguments
HandlerBody(h, args) ==
    CASE h.body.k = "const" -> h.body.value
      [] h.body.k = "join" -> StringValue(Concat(args))
      [] h.body.k = "json" -> JsonValue(args[Len(args)])

ExtractEvent(i, ok) == [ev |-> "extract", idx |-> i, ok |-> ok, args |-> <<>>]
BodyEvent(args) == [ev |-> "body", idx |-> 0, ok |-> TRUE, args |-> args]

PanicResponse == Response("NotFound", <<>>)

CallResult(panic, resp, trace) == [panic |-> panic, resp |-> resp, trace |-> trace]

\* The expansion of impl_handler!: one `let $ty = match $ty::call(&req, state.clone())`
\* per parameter, returning at the first Err, then the body and into_response.
\* trace lists what ran: the model's record of the order of the calls.
\* CallFrom without the early return: a failed extraction is recorded and the
\* next parameter is extracted all the same
RECURSIVE CallFrom_NoEarlyReturn(_, _, _, _, _, _)
CallFrom_NoEarlyReturn(h, req, st, i, args, trace) ==
    IF i > Len(h.params)
    THEN CallResult(FALSE, into_response(HandlerBody(h, args)),
                    Append(trace, BodyEvent(args)))
    ELSE LET e == FromMesasge(h.params[i], req, st)
         IN  IF e.panic
             THEN CallResult(TRUE, PanicResponse, Append(trace, ExtractEvent(i, FALSE)))
             ELSE IF ~e.ok /\ i = Len(h.params)
             THEN CallResult(FALSE, into_response(e.rej),
                             Append(trace, ExtractEvent(i, FALSE)))
             ELSE CallFrom_NoEarlyReturn(h, req, st, i + 1, Append(args, e.val),
                                         Append(trace, ExtractEvent(i, e.ok)))

RECURSIVE CallFrom(_, _, _, _, _, _)
CallFrom(h, req, st, i, args, trace) ==
    IF i > Len(h.params)
    THEN CallResult(FALSE, into_response(HandlerBody(h, args)),
                    Append(trace, BodyEvent(args)))
    ELSE LET e == FromMesasge(h.params[i], req, st)
         IN  IF e.panic
             THEN CallResult(TRUE, PanicResponse, Append(trace, ExtractEvent(i, FALSE)))
             ELSE IF ~e.ok
             THEN CallResult(FALSE, into_response(e.rej),
                             Append(trace, ExtractEvent(i, FALSE)))
             ELSE CallFrom(h, req, st, i + 1, Append(args, e.val),
                           Append(trace, ExtractEvent(i, TRUE)))

\* one call of a handler of the chain: the handler, the request and the
\* context it was given, and what came of it
Invocation(h, req, st, c) ==
    [h |-> h, req |-> req, st |-> st, panic |-> c.panic, resp |-> c.resp,
     trace |-> c.trace]

\* Handler::call (and HandlerService::call of ExtractorHandler, which forwards)
Call(h, req, st) == Invocation(h, req, st, CallFrom(h, req, st, 1, <<>>, <<>>))

(***************************************************************************)
(* Router (lib.rs)                                                         *)
(***************************************************************************)
EmptyRoute == [f \in Frames |-> <<>>]

\* Route putting the handler in front of the kind's list
Route_Prepend(rt, frame, h) == [rt EXCEPT ![frame] = <<h>> \o @]

\* NextDoor::route: self.route.entry(frame).or_default().push(..)
Route(rt, frame, h) == [rt EXCEPT ![frame] = Append(@, h)]

Outcome(req, panic, resp, calls) ==
    [kind |-> "dispatch", req |-> req, panic |-> panic, resp |-> resp, calls |-> calls]

NoOut ==
    [kind |-> "none", req |-> Request("Text", <<>>), panic |-> FALSE,
     resp |-> Response("NotFound", <<>>), calls |-> <<>>]

\* the `for route in routes.iter()` loop of NextDoor::handler and the
\* Response built after it
\* HandlerLoop returning the last failure as it is, status included
RECURSIVE HandlerLoop_KeepStatus(_, _, _, _, _, _)
HandlerLoop_KeepStatus(routes, st, req, i, last, calls) ==
    IF i > Len(routes)
    THEN Outcome(req, FALSE, last, calls)
    ELSE LET c == Call(routes[i], req, st)
         IN  IF c.panic THEN Outcome(req, TRUE, PanicResponse, Append(calls, c))
             ELSE IF c.resp.status = "OK"
             THEN Outcome(req, FALSE, c.resp, Append(calls, c))
             ELSE HandlerLoop_KeepStatus(routes, st, req, i + 1, c.resp, Append(calls, c))

\* HandlerLoop giving up at the first handler that does not return OK
RECURSIVE HandlerLoop_StopAtError(_, _, _, _, _, _)
HandlerLoop_StopAtError(routes, st, req, i, last, calls) ==
    IF i > Len(routes)
    THEN Outcome(req, FALSE, Response("NotFound", last.body), calls)
    ELSE LET c == Call(routes[i], req, st)
         IN  IF c.panic THEN Outcome(req, TRUE, PanicResponse, Append(calls, c))
             ELSE IF c.resp.status = "OK"
             THEN Outcome(req, FALSE, c.resp, Append(calls, c))
             ELSE Outcome(req, FALSE, Response("NotFound", c.resp.body), Append(calls, c))

RECURSIVE HandlerLoop(_, _, _, _, _, _)
HandlerLoop(routes, st, req, i, last, calls) ==
    IF i > Len(routes)
    THEN Outcome(req, FALSE, Response("NotFound", last.body), calls)
    ELSE LET c == Call(routes[i], req, st)
         IN  IF c.panic THEN Outcome(req, TRUE, PanicResponse, Append(calls, c))
             ELSE IF c.resp.status = "OK"
             THEN Outcome(req, FALSE, c.resp, Append(calls, c))
             ELSE HandlerLoop(routes, st, req, i + 1, c.resp, Append(calls, c))

\* NextDoor::handler answering a kind without entry as an empty chain would
handler_NoPathAsNotFound(rt, st, req) ==
    HandlerLoop(rt[req.path], st, req, 1, Response("NotFound", <<>>), <<>>)

\* NextDoor::handler going through the Text handlers after those of the kind
handler_TextToo(rt, st, req) ==
    LET routes == rt[req.path]
    IN  IF routes = <<>>
        THEN LET str == try_to_string(req)
             IN  IF str.ok
                 THEN Outcome(req, FALSE, Response("NotFountPath", str.val), <<>>)
                 ELSE Outcome(req, TRUE, PanicResponse, <<>>)
        ELSE HandlerLoop(routes \o rt["Text"], st, req, 1, Response("NotFound", <<>>), <<>>)

\* NextDoor::handler returning the last handler's Response with its status
handler_LastAsIs(rt, st, req) ==
    LET routes == rt[req.path]
    IN  IF routes = <<>>
        THEN LET str == try_to_string(req)
             IN  IF str.ok
                 THEN Outcome(req, FALSE, Response("NotFountPath", str.val), <<>>)
                 ELSE Outcome(req, TRUE, PanicResponse, <<>>)
        ELSE HandlerLoop_KeepStatus(routes, st, req, 1, Response("NotFound", <<>>), <<>>)

\* NextDoor::handler.  With no entry for the kind the body is
\* String::from_utf8(req.to_vec()).unwrap(), which panics on invalid UTF-8.
handler(rt, st, req) ==
    LET routes == rt[req.path]
    IN  IF routes = <<>>
        THEN LET str == try_to_string(req)
             IN  IF str.ok
                 THEN Outcome(req, FALSE, Response("NotFountPath", str.val), <<>>)
                 ELSE Outcome(req, TRUE, PanicResponse, <<>>)
        ELSE HandlerLoop(routes, st, req, 1, Response("NotFound", <<>>), <<>>)

(***************************************************************************)
(* Client runtime (client.rs)                                              *)
(***************************************************************************)
\* "ws://a" and "wss://alt"
UrlMain == <<119, 115, 58, 47, 47, 97>>
WssAlt == <<119, 115, 115, 58, 47, 47, 97, 108, 116>>

NoConfig ==
    [some |-> FALSE, initial_delay |-> 0, max_delay |-> 0, max_retries |-> 0,
     backoff_factor |-> <<1, 1>>]

\* backoff_factor is the fraction <<numerator, denominator>> of the f64
ReconnectConfig(initial_delay, max_delay, max_retries, backoff_factor) ==
    [some |-> TRUE, initial_delay |-> initial_delay, max_delay |-> max_delay,
     max_retries |-> max_retries, backoff_factor |-> backoff_factor]

\* impl Default for ReconnectConfig
DefaultInitialDelay == 1000
DefaultMaxDelay == 30000
DefaultMaxRetries == 8
DefaultBackoffFactor == <<3, 2>>
DefaultConfig ==
    ReconnectConfig(DefaultInitialDelay, DefaultMaxDelay, DefaultMaxRetries,
                    DefaultBackoffFactor)

Min(a, b) == IF a <= b THEN a ELSE b

\* a policy that reaches max_delay within its retries
SmallConfig == ReconnectConfig(100, 300, 2, <<2, 1>>)

\* a policy without retries, one whose backoff_factor is below 1, and one whose
\* initial_delay is above its max_delay
NoRetryConfig == ReconnectConfig(100, 300, 0, <<2, 1>>)
ShrinkConfig == ReconnectConfig(1000, 300, 2, <<1, 2>>)
CappedConfig == ReconnectConfig(1000, 300, 2, <<3, 2>>)

\* calculate_next_delay rounding the product to the nearest integer
calculate_next_delay_Rounded(current_delay, backoff_factor, max_delay) ==
    Min((2 * current_delay * backoff_factor[1] + backoff_factor[2])
            \div (2 * backoff_factor[2]), max_delay)

\* calculate_next_delay without the .min(max_delay)
calculate_next_delay_Uncapped(current_delay, backoff_factor, max_delay) ==
    (current_delay * backoff_factor[1]) \div backoff_factor[2]

\* ((current_delay as f64 * backoff_factor) as u64).min(max_delay): the product is
\* exact in f64 for the delays of the model and the cast truncates
calculate_next_delay(current_delay, backoff_factor, max_delay) ==
    Min((current_delay * backoff_factor[1]) \div backoff_factor[2], max_delay)

NoUrl == [some |-> FALSE, url |-> <<>>]
SomeUrl(u) == [some |-> TRUE, url |-> u]
ReaderResult(should_reconnect, maybe_new_url) ==
    [reconnect |-> should_reconnect, new_url |-> maybe_new_url]
NoResult == ReaderResult(FALSE, NoUrl)

\* The tasks of a connection are not aborted when the select! of run drops their
\* JoinHandles: reader, writer and chan are those of the latest connection and
\* go on after run has left Connected, until the next connection replaces them.
TxOpen == reader \in {"Reading", "Sending"}
RxOpen == writer = "Running"

---------------------------------------------------------------------------
\* ConnectOk starting the backoff over
ConnectOk_ResetsBackoff ==
    /\ pc = "Connecting"
    /\ pc' = "Connected"
    /\ reader' = "Reading"
    /\ reader_result' = NoResult
    /\ pending' = <<>>
    /\ writer' = "Running"
    /\ chan' = <<>>
    /\ shutdown_fired' = FALSE
    /\ ever_connected' = TRUE
    /\ last_out' = NoOut
    /\ oks' = <<>>
    /\ enqueued' = <<>>
    /\ wire' = <<>>
    /\ UNCHANGED probe
    /\ retry_count' = 0
    /\ delay' = reconnect_config.initial_delay
    /\ UNCHANGED <<route, state, capacity, reconnect_config, current_url,
                   result, slept, failures>>

\* ConnectOk with one channel for the whole run, made before the loop
ConnectOk_KeepsChannel ==
    /\ pc = "Connecting"
    /\ pc' = "Connected"
    /\ reader' = "Reading"
    /\ reader_result' = NoResult
    /\ pending' = <<>>
    /\ writer' = "Running"
    /\ chan' = chan
    /\ shutdown_fired' = FALSE
    /\ ever_connected' = TRUE
    /\ last_out' = NoOut
    /\ oks' = <<>>
    /\ enqueued' = <<>>
    /\ wire' = <<>>
    /\ UNCHANGED probe
    /\ UNCHANGED <<route, state, capacity, reconnect_config, current_url,
                   retry_count, delay, result, slept, failures>>

\* connect_async succeeded: the channel and the two tasks of the connection
ConnectOk ==
    /\ pc = "Connecting"
    /\ pc' = "Connected"
    /\ reader' = "Reading"
    /\ reader_result' = NoResult
    /\ pending' = <<>>
    /\ writer' = "Running"
    /\ chan' = <<>>
    /\ shutdown_fired' = FALSE
    /\ ever_connected' = TRUE
    /\ last_out' = NoOut
    /\ oks' = <<>>
    /\ enqueued' = <<>>
    /\ wire' = <<>>
    /\ UNCHANGED probe
    /\ UNCHANGED <<route, state, capacity, reconnect_config, current_url,
                   retry_count, delay, result, slept, failures>>

\* FailArm comparing with > : one retry too many
FailArm_OffByOne(config, retries) ==
    IF ~config.some THEN "WsError"
    ELSE IF retries > config.max_retries THEN "MaxRetriesExceeded"
    ELSE "retry"

\* FailArm without the `let Some(..) else { return Err(..) }` of the missing policy
FailArm_NoPolicyCounts(config, retries) ==
    IF retries >= config.max_retries THEN "MaxRetriesExceeded" ELSE "retry"

\* FailArm giving up when one retry is still left
FailArm_OneShort(config, retries) ==
    IF ~config.some THEN "WsError"
    ELSE IF retries + 1 >= config.max_retries THEN "MaxRetriesExceeded"
    ELSE "retry"

\* The Err(e) arm of run, before it counts and sleeps: return the transport error
\* when there is no policy, MaxRetriesExceeded when the retries are used up, and
\* retry otherwise.
FailArm(config, retries) ==
    IF ~config.some THEN "WsError"
    ELSE IF retries >= config.max_retries THEN "MaxRetriesExceeded"
    ELSE "retry"

\* ConnectFail retrying with the URL run was started with
ConnectFail_BackToFirstUrl ==
    /\ pc = "Connecting"
    /\ failures' = failures + 1
    /\ last_out' = NoOut
    /\ LET arm == FailArm(reconnect_config, retry_count)
       IN  IF arm = "retry"
           THEN /\ retry_count' = retry_count + 1
                /\ delay' = calculate_next_delay(delay, reconnect_config.backoff_factor,
                                                 reconnect_config.max_delay)
                /\ slept' = Append(slept, delay')
                /\ pc' = "BackoffSleep"
                /\ UNCHANGED result
           ELSE /\ pc' = "Terminated"
                /\ result' = arm
                /\ UNCHANGED <<retry_count, delay, slept>>
    /\ current_url' = UrlMain
    /\ UNCHANGED <<route, state, capacity, reconnect_config, reader,
                   reader_result, pending, writer, chan, shutdown_fired,
                   ever_connected>>
    /\ UNCHANGED <<oks, enqueued, wire, probe>>

\* ConnectFail counting the failure before it compares with max_retries
ConnectFail_CountFirst ==
    /\ pc = "Connecting"
    /\ failures' = failures + 1
    /\ last_out' = NoOut
    /\ LET arm == FailArm(reconnect_config, retry_count)
       IN  IF arm = "retry"
           THEN /\ retry_count' = retry_count + 1
                /\ delay' = calculate_next_delay(delay, reconnect_config.backoff_factor,
                                                 reconnect_config.max_delay)
                /\ slept' = Append(slept, delay')
                /\ pc' = "BackoffSleep"
                /\ UNCHANGED result
           ELSE /\ pc' = "Terminated"
                /\ result' = arm
                /\ retry_count' = IF reconnect_config.some THEN retry_count + 1
                                  ELSE retry_count
                /\ UNCHANGED <<delay, slept>>
    /\ UNCHANGED <<route, state, capacity, reconnect_config, current_url, reader,
                   reader_result, pending, writer, chan, shutdown_fired,
                   ever_connected>>
    /\ UNCHANGED <<oks, enqueued, wire, probe>>

\* connect_async failed: the Err(e) arm of run
ConnectFail ==
    /\ pc = "Connecting"
    /\ failures' = failures + 1
    /\ last_out' = NoOut
    /\ LET arm == FailArm(reconnect_config, retry_count)
       IN  IF arm = "retry"
           THEN /\ retry_count' = retry_count + 1
                /\ delay' = calculate_next_delay(delay, reconnect_config.backoff_factor,
                                                 reconnect_config.max_delay)
                /\ slept' = Append(slept, delay')
                /\ pc' = "BackoffSleep"
                /\ UNCHANGED result
           ELSE /\ pc' = "Terminated"
                /\ result' = arm
                /\ UNCHANGED <<retry_count, delay, slept>>
    /\ UNCHANGED <<route, state, capacity, reconnect_config, current_url, reader,
                   reader_result, pending, writer, chan, shutdown_fired,
                   ever_connected>>
    /\ UNCHANGED <<oks, enqueued, wire, probe>>

\* sleep(Duration::from_millis(delay)) is over: continue
BackoffWake ==
    /\ pc = "BackoffSleep"
    /\ pc' = "Connecting"
    /\ last_out' = NoOut
    /\ UNCHANGED <<route, state, capacity, reconnect_config, current_url,
                   retry_count, delay, result, reader, reader_result, pending,
                   writer, chan, shutdown_fired, slept, ever_connected, failures>>
    /\ UNCHANGED <<oks, enqueued, wire, probe>>

\* sleep(Duration::from_secs(1)) is over: continue
FixedWake ==
    /\ pc = "FixedSleep"
    /\ pc' = "Connecting"
    /\ last_out' = NoOut
    /\ UNCHANGED <<route, state, capacity, reconnect_config, current_url,
                   retry_count, delay, result, reader, reader_result, pending,
                   writer, chan, shutdown_fired, slept, ever_connected, failures>>
    /\ UNCHANGED <<oks, enqueued, wire, probe>>

\* select!: the recv_task branch.  Ok((true, url)) sleeps and continues,
\* Ok((false, _)) and Err(JoinError) (the task panicked) fall out of the select!.
SelectRecv ==
    /\ pc = "Connected"
    /\ reader \in {"Done", "Panicked"}
    /\ IF reader = "Done" /\ reader_result.reconnect
       THEN /\ current_url' = IF reader_result.new_url.some
                              THEN reader_result.new_url.url
                              ELSE current_url
            /\ pc' = "FixedSleep"
       ELSE /\ pc' = "Connecting"
            /\ UNCHANGED current_url
    /\ shutdown_fired' = FALSE
    /\ last_out' = NoOut
    /\ UNCHANGED <<route, state, capacity, reconnect_config, retry_count, delay,
                   result, reader, reader_result, pending, writer, chan, slept,
                   ever_connected, failures>>
    /\ UNCHANGED <<oks, enqueued, wire, probe>>

\* SelectSend counting the end of the connection as a failed attempt
SelectSend_CountsRetry ==
    /\ pc = "Connected"
    /\ writer = "Done"
    /\ pc' = "Connecting"
    /\ retry_count' = retry_count + 1
    /\ shutdown_fired' = FALSE
    /\ last_out' = NoOut
    /\ UNCHANGED <<route, state, capacity, reconnect_config, current_url,
                   delay, result, reader, reader_result, pending,
                   writer, chan, slept, ever_connected, failures>>
    /\ UNCHANGED <<oks, enqueued, wire, probe>>

\* select!: the send_task branch
SelectSend ==
    /\ pc = "Connected"
    /\ writer = "Done"
    /\ pc' = "Connecting"
    /\ shutdown_fired' = FALSE
    /\ last_out' = NoOut
    /\ UNCHANGED <<route, state, capacity, reconnect_config, current_url,
                   retry_count, delay, result, reader, reader_result, pending,
                   writer, chan, slept, ever_connected, failures>>
    /\ UNCHANGED <<oks, enqueued, wire, probe>>

\* select!: the shutdown() branch: break, then Ok(())
SelectShutdown ==
    /\ pc = "Connected"
    /\ shutdown_fired
    /\ pc' = "Terminated"
    /\ result' = "Ok"
    /\ last_out' = NoOut
    /\ UNCHANGED <<route, state, capacity, reconnect_config, current_url,
                   retry_count, delay, reader, reader_result, pending, writer,
                   chan, shutdown_fired, slept, ever_connected, failures>>
    /\ UNCHANGED <<oks, enqueued, wire, probe>>

\* ctrl-c arrives while the select! holds a shutdown() future
ShutdownSignal ==
    /\ pc = "Connected"
    /\ ~shutdown_fired
    /\ shutdown_fired' = TRUE
    /\ last_out' = NoOut
    /\ UNCHANGED <<route, state, capacity, reconnect_config, pc, current_url,
                   retry_count, delay, result, reader, reader_result, pending,
                   writer, chan, slept, ever_connected, failures>>
    /\ UNCHANGED <<oks, enqueued, wire, probe>>

\* HandleMessage with try_send in place of send: a full channel loses the message
HandleMessage_DropWhenFull(out) ==
    /\ last_out' = out
    /\ oks' = IF ~out.panic /\ is_success(out.resp.status)
              THEN Append(oks, out.resp.body)
              ELSE oks
    /\ IF out.panic
       THEN /\ reader' = "Panicked"
            /\ UNCHANGED <<reader_result, pending, chan, enqueued>>
       ELSE IF is_reconnect(out.resp.status)
       THEN /\ reader' = "Done"
            /\ reader_result' = ReaderResult(TRUE, SomeUrl(out.resp.body))
            /\ UNCHANGED <<pending, chan, enqueued>>
       ELSE IF is_success(out.resp.status) /\ ~RxOpen
       THEN /\ reader' = "Done"
            /\ reader_result' = ReaderResult(FALSE, NoUrl)
            /\ UNCHANGED <<pending, chan, enqueued>>
       ELSE IF is_success(out.resp.status) /\ Len(chan) < capacity
       THEN /\ chan' = Append(chan, out.resp.body)
            /\ enqueued' = Append(enqueued, out.resp.body)
            /\ UNCHANGED <<reader, reader_result, pending>>
       ELSE UNCHANGED <<reader, reader_result, pending, chan, enqueued>>
    /\ UNCHANGED <<wire, probe>>
    /\ UNCHANGED <<route, state, capacity, reconnect_config, pc, current_url,
                   retry_count, delay, result, writer, shutdown_fired, slept,
                   ever_connected, failures>>

\* ctrl-c arrives while run is in connect_async or in a sleep: no shutdown()
\* future is there to get it, and the one the next select! makes listens from
\* its creation on
ShutdownUnheard ==
    /\ pc \in {"Connecting", "BackoffSleep", "FixedSleep"}
    /\ ~shutdown_fired
    /\ shutdown_fired' = TRUE
    /\ last_out' = NoOut
    /\ UNCHANGED <<route, state, capacity, reconnect_config, pc, current_url,
                   retry_count, delay, result, reader, reader_result, pending,
                   writer, chan, slept, ever_connected, failures>>
    /\ UNCHANGED <<oks, enqueued, wire, probe>>

\* select!: the shutdown() branch when tokio::signal::ctrl_c() gave Err: shutdown()
\* logs the error and returns, no ctrl-c having arrived; break, then Ok(())
ShutdownListenError ==
    /\ pc = "Connected"
    /\ ~shutdown_fired
    /\ pc' = "Terminated"
    /\ result' = "Ok"
    /\ last_out' = NoOut
    /\ UNCHANGED <<route, state, capacity, reconnect_config, current_url,
                   retry_count, delay, reader, reader_result, pending, writer,
                   chan, shutdown_fired, slept, ever_connected, failures>>
    /\ UNCHANGED <<oks, enqueued, wire, probe>>

\* HandleMessage ending the reader on a Response that is an error
HandleMessage_ErrorStops(out) ==
    /\ last_out' = out
    /\ oks' = IF ~out.panic /\ is_success(out.resp.status)
              THEN Append(oks, out.resp.body)
              ELSE oks
    /\ IF out.panic
       THEN /\ reader' = "Panicked"
            /\ UNCHANGED <<reader_result, pending, chan, enqueued>>
       ELSE IF is_reconnect(out.resp.status)
       THEN /\ reader' = "Done"
            /\ reader_result' = ReaderResult(TRUE, SomeUrl(out.resp.body))
            /\ UNCHANGED <<pending, chan, enqueued>>
       ELSE IF is_success(out.resp.status)
       THEN IF ~RxOpen
            THEN /\ reader' = "Done"
                 /\ reader_result' = ReaderResult(FALSE, NoUrl)
                 /\ UNCHANGED <<pending, chan, enqueued>>
            ELSE IF Len(chan) < capacity
            THEN /\ chan' = Append(chan, out.resp.body)
                 /\ enqueued' = Append(enqueued, out.resp.body)
                 /\ UNCHANGED <<reader, reader_result, pending>>
            ELSE /\ reader' = "Sending"
                 /\ pending' = out.resp.body
                 /\ UNCHANGED <<reader_result, chan, enqueued>>
       ELSE /\ reader' = "Done"
            /\ reader_result' = ReaderResult(FALSE, NoUrl)
            /\ UNCHANGED <<pending, chan, enqueued>>
    /\ UNCHANGED <<wire, probe>>
    /\ UNCHANGED <<route, state, capacity, reconnect_config, pc, current_url,
                   retry_count, delay, result, writer, shutdown_fired, slept,
                   ever_connected, failures>>

\* HandleMessage going on to read when tx.send gave Err
HandleMessage_IgnoreSendError(out) ==
    /\ last_out' = out
    /\ oks' = IF ~out.panic /\ is_success(out.resp.status)
              THEN Append(oks, out.resp.body)
              ELSE oks
    /\ IF out.panic
       THEN /\ reader' = "Panicked"
            /\ UNCHANGED <<reader_result, pending, chan, enqueued>>
       ELSE IF is_reconnect(out.resp.status)
       THEN /\ reader' = "Done"
            /\ reader_result' = ReaderResult(TRUE, SomeUrl(out.resp.body))
            /\ UNCHANGED <<pending, chan, enqueued>>
       ELSE IF is_success(out.resp.status)
       THEN IF ~RxOpen
            THEN UNCHANGED <<reader, reader_result, pending, chan, enqueued>>
            ELSE IF Len(chan) < capacity
            THEN /\ chan' = Append(chan, out.resp.body)
                 /\ enqueued' = Append(enqueued, out.resp.body)
                 /\ UNCHANGED <<reader, reader_result, pending>>
            ELSE /\ reader' = "Sending"
                 /\ pending' = out.resp.body
                 /\ UNCHANGED <<reader_result, chan, enqueued>>
       ELSE UNCHANGED <<reader, reader_result, pending, chan, enqueued>>
    /\ UNCHANGED <<wire, probe>>
    /\ UNCHANGED <<route, state, capacity, reconnect_config, pc, current_url,
                   retry_count, delay, result, writer, shutdown_fired, slept,
                   ever_connected, failures>>

\* handle_message, after the dispatch gave `out`
HandleMessage(out) ==
    /\ last_out' = out
    /\ oks' = IF ~out.panic /\ is_success(out.resp.status)
              THEN Append(oks, out.resp.body)
              ELSE oks
    /\ IF out.panic
       THEN /\ reader' = "Panicked"
            /\ UNCHANGED <<reader_result, pending, chan, enqueued>>
       ELSE IF is_reconnect(out.resp.status)
       THEN /\ reader' = "Done"
            /\ reader_result' = ReaderResult(TRUE, SomeUrl(out.resp.body))
            /\ UNCHANGED <<pending, chan, enqueued>>
       ELSE IF is_success(out.resp.status)
       THEN IF ~RxOpen
            THEN /\ reader' = "Done"
                 /\ reader_result' = ReaderResult(FALSE, NoUrl)
                 /\ UNCHANGED <<pending, chan, enqueued>>
            ELSE IF Len(chan) < capacity
            THEN /\ chan' = Append(chan, out.resp.body)
                 /\ enqueued' = Append(enqueued, out.resp.body)
                 /\ UNCHANGED <<reader, reader_result, pending>>
            ELSE /\ reader' = "Sending"
                 /\ pending' = out.resp.body
                 /\ UNCHANGED <<reader_result, chan, enqueued>>
       ELSE UNCHANGED <<reader, reader_result, pending, chan, enqueued>>
    /\ UNCHANGED <<wire, probe>>
    /\ UNCHANGED <<route, state, capacity, reconnect_config, pc, current_url,
                   retry_count, delay, result, writer, shutdown_fired, slept,
                   ever_connected, failures>>

\* the messages the transport delivers in the model; a Text message holds a String
Bye == <<98, 121, 101>>
InboundMessages ==
    {Message("Text", <<49>>), Message("Text", <<195, 169>>),
     Message("Binary", <<49>>), Message("Binary", <<195>>),
     Message("Ping", <<>>),
     CloseMessage(TNoClose), CloseMessage(TCloseFrame(Bye, CloseCodeFrom(1001)))}

\* receive_messages: read.next() gave Some(Ok(msg)); handle_message(msg)
ReaderHandle ==
    /\ reader = "Reading"
    /\ Len(oks) < MaxOutbound
    /\ \E msg \in InboundMessages :
          HandleMessage(handler(route, state, from_ws_message(msg)))

\* tx.send(..).await of handle_message resumes: room in the channel, or the
\* receiver is gone
ReaderResume ==
    /\ reader = "Sending"
    /\ IF ~RxOpen
       THEN /\ reader' = "Done"
            /\ reader_result' = ReaderResult(FALSE, NoUrl)
            /\ pending' = <<>>
            /\ UNCHANGED <<chan, enqueued>>
       ELSE /\ Len(chan) < capacity
            /\ chan' = Append(chan, pending)
            /\ enqueued' = Append(enqueued, pending)
            /\ reader' = "Reading"
            /\ pending' = <<>>
            /\ UNCHANGED reader_result
    /\ last_out' = NoOut
    /\ UNCHANGED <<oks, wire, probe>>
    /\ UNCHANGED <<route, state, capacity, reconnect_config, pc, current_url,
                   retry_count, delay, result, writer, shutdown_fired, slept,
                   ever_connected, failures>>

\* receive_messages: read.next() gave Some(Err(e)) or None (the stream ended)
ReaderRecvEnd ==
    /\ reader = "Reading"
    /\ reader' = "Done"
    /\ reader_result' = ReaderResult(FALSE, NoUrl)
    /\ last_out' = NoOut
    /\ UNCHANGED <<route, state, capacity, reconnect_config, pc, current_url,
                   retry_count, delay, result, pending, writer, chan,
                   shutdown_fired, slept, ever_connected, failures>>
    /\ UNCHANGED <<oks, enqueued, wire, probe>>

\* WriterSend taking the message queued last
WriterSend_Lifo ==
    /\ writer = "Running"
    /\ chan # <<>>
    /\ wire' = Append(wire, chan[Len(chan)])
    /\ \/ /\ chan' = SubSeq(chan, 1, Len(chan) - 1)
          /\ UNCHANGED writer
       \/ /\ chan' = <<>>
          /\ writer' = "Done"
    /\ last_out' = NoOut
    /\ UNCHANGED <<oks, enqueued, probe>>
    /\ UNCHANGED <<route, state, capacity, reconnect_config, pc, current_url,
                   retry_count, delay, result, reader, reader_result, pending,
                   shutdown_fired, slept, ever_connected, failures>>

\* send_messages: rx.recv() gave Some(msg); write.send(msg) succeeds, or fails
\* and the task ends (dropping rx and what is queued)
WriterSend ==
    /\ writer = "Running"
    /\ chan # <<>>
    /\ wire' = Append(wire, Head(chan))
    /\ \/ /\ chan' = Tail(chan)
          /\ UNCHANGED writer
       \/ /\ chan' = <<>>
          /\ writer' = "Done"
    /\ last_out' = NoOut
    /\ UNCHANGED <<oks, enqueued, probe>>
    /\ UNCHANGED <<route, state, capacity, reconnect_config, pc, current_url,
                   retry_count, delay, result, reader, reader_result, pending,
                   shutdown_fired, slept, ever_connected, failures>>

\* send_messages: rx.recv() gave None: the queue is empty and tx is dropped
WriterClosed ==
    /\ writer = "Running"
    /\ chan = <<>>
    /\ ~TxOpen
    /\ writer' = "Done"
    /\ last_out' = NoOut
    /\ UNCHANGED <<route, state, capacity, reconnect_config, pc, current_url,
                   retry_count, delay, result, reader, reader_result, pending,
                   chan, shutdown_fired, slept, ever_connected, failures>>
    /\ UNCHANGED <<oks, enqueued, wire, probe>>

(***************************************************************************)
(* Handlers and route tables of the model                                  *)
(***************************************************************************)
\* |req: String| async move { req }
EchoString == Handler(<<"String">>, JoinBody)
\* |State(s): State<_>, req: String| async move { format!("{}{}", s, req) }
StateString == Handler(<<"State", "String">>, JoinBody)
\* |req: String, Json(n): Json<u64>| async move { Json(n) }
StringJson == Handler(<<"String", "Json">>, JsonBody)
\* || async { a value whose into_response is {Reconnect, "wss://alt"} }
ReconnectAlt == Handler(<<>>, ConstBody(CustomValue(Response("Reconnect", WssAlt))))
\* |req: String| async move { None::<String> }
NoneString == Handler(<<"String">>, ConstBody(OptionValue(FALSE, Unit)))
\* async fn binary(Binary(param): Binary) {}   (and ping, pong)
BytesUnit(ex) == Handler(<<ex>>, ConstBody(Unit))
\* async fn close(Close(param): Close) {}
CloseUnit == Handler(<<"Close">>, ConstBody(Unit))

\* |State(s): State<_>| async move { s }
StateOnly == Handler(<<"State">>, JoinBody)

\* the handlers a registration of the model may pass, by kind
Pool(frame) ==
    CASE frame = "Text" -> {EchoString, StateString, StringJson, ReconnectAlt, NoneString,
                            StateOnly}
      [] frame = "Close" -> {CloseUnit}
      [] OTHER -> {BytesUnit(frame)}

\* the shared context: the String "s"
AppState == <<115>>

RECURSIVE RouteAll(_, _)
\* router.text(h1).binary(h2)... : regs is a sequence of <<frame, handler>>
RouteAll(rt, regs) ==
    IF regs = <<>> THEN rt
    ELSE RouteAll(Route(rt, Head(regs)[1], Head(regs)[2]), Tail(regs))

\* the routers the client runs with in the model
ClientRoutes ==
    {EmptyRoute,
     RouteAll(EmptyRoute, <<<<"Text", EchoString>>, <<"Close", CloseUnit>>>>),
     RouteAll(EmptyRoute, <<<<"Text", ReconnectAlt>>, <<"Binary", BytesUnit("Binary")>>>>),
     RouteAll(EmptyRoute, <<<<"Text", StringJson>>, <<"Text", StateString>>>>)}

HandlerCount(rt) ==
    Len(rt["Text"]) + Len(rt["Binary"]) + Len(rt["Close"]) + Len(rt["Ping"])
        + Len(rt["Pong"])

RouterRequests ==
    {Request(f, b) : f \in Frames, b \in Bodies}
        \cup {from_ws_message(CloseMessage(TCloseFrame(Bye, CloseCodeFrom(1001))))}

\* no conversion applied
NoProbe == [op |-> "none", arg |-> <<>>, out |-> <<>>]

---------------------------------------------------------------------------
\* no client: the router alone (NextDoor::new / with_state)
NoClient ==
    /\ capacity = 1
    /\ reconnect_config = NoConfig
    /\ pc = "NoClient"
    /\ current_url = UrlMain
    /\ retry_count = 0
    /\ delay = 0
    /\ result = "none"
    /\ reader = "Idle"
    /\ reader_result = NoResult
    /\ pending = <<>>
    /\ writer = "Idle"
    /\ chan = <<>>
    /\ shutdown_fired = FALSE
    /\ slept = <<>>
    /\ ever_connected = FALSE
    /\ failures = 0
    /\ oks = <<>>
    /\ enqueued = <<>>
    /\ wire = <<>>

InitRouter ==
    /\ route = EmptyRoute
    /\ state = AppState
    /\ last_out = NoOut
    /\ probe = NoProbe
    /\ NoClient

\* router.text(h), .binary(h), .close(h), .ping(h), .pong(h)
RegisterRoute ==
    /\ HandlerCount(route) < MaxHandlers
    /\ \E frame \in Frames : \E h \in Pool(frame) : route' = Route(route, frame, h)
    /\ last_out' = NoOut
    /\ UNCHANGED <<state, capacity, reconnect_config, pc, current_url, retry_count,
                   delay, result, reader, reader_result, pending, writer, chan,
                   shutdown_fired, slept, ever_connected, failures>>
    /\ UNCHANGED <<oks, enqueued, wire, probe>>

\* router.handler(req).await
Dispatch ==
    /\ last_out.kind = "none"
    /\ \E req \in RouterRequests : last_out' = handler(route, state, req)
    /\ UNCHANGED <<route, state, capacity, reconnect_config, pc, current_url,
                   retry_count, delay, result, reader, reader_result, pending,
                   writer, chan, shutdown_fired, slept, ever_connected, failures>>
    /\ UNCHANGED <<oks, enqueued, wire, probe>>

\* the caller is done with the Response
DropResponse ==
    /\ last_out.kind = "dispatch"
    /\ last_out' = NoOut
    /\ UNCHANGED <<route, state, capacity, reconnect_config, pc, current_url,
                   retry_count, delay, result, reader, reader_result, pending,
                   writer, chan, shutdown_fired, slept, ever_connected, failures>>
    /\ UNCHANGED <<oks, enqueued, wire, probe>>

NextRouter == RegisterRoute \/ Dispatch \/ DropResponse

SpecRouter == InitRouter /\ [][NextRouter]_vars

---------------------------------------------------------------------------
\* connect(router, url), set_capacity, with_reconnect_config, then run():
\* the state at the top of run's loop
Init ==
    /\ route \in ClientRoutes
    /\ state = AppState
    /\ capacity \in 1..MaxCapacity
    /\ reconnect_config \in {NoConfig, DefaultConfig, SmallConfig}
    /\ pc = "Connecting"
    /\ current_url = UrlMain
    /\ retry_count = 0
    /\ delay = reconnect_config.initial_delay
    /\ result = "none"
    /\ reader = "Idle"
    /\ reader_result = NoResult
    /\ pending = <<>>
    /\ writer = "Idle"
    /\ chan = <<>>
    /\ shutdown_fired = FALSE
    /\ last_out = NoOut
    /\ slept = <<>>
    /\ ever_connected = FALSE
    /\ failures = 0
    /\ oks = <<>>
    /\ enqueued = <<>>
    /\ wire = <<>>
    /\ probe = NoProbe

\* The run of a client whose router is a NextDoor.  NextDoor::handler returns
\* only the statuses OK, NotFound and NotFountPath, so the reader never reports a
\* reconnect and the fixed sleep of run is never entered: FixedWake is no step of
\* this specification.
Next ==
    \/ ConnectOk
    \/ ConnectFail
    \/ BackoffWake
    \/ SelectRecv
    \/ SelectSend
    \/ SelectShutdown
    \/ ShutdownSignal
    \/ ShutdownUnheard
    \/ ShutdownListenError
    \/ ReaderRecvEnd
    \/ ReaderHandle
    \/ ReaderResume
    \/ WriterSend
    \/ WriterClosed

Spec == Init /\ [][Next]_vars

\* the policies of the runs whose retries are followed to their end
Policies == {SmallConfig, NoRetryConfig, ShrinkConfig, CappedConfig}

\* run() of a client with an echoing router, with one of these policies or none
InitLive ==
    /\ route = RouteAll(EmptyRoute, <<<<"Text", EchoString>>, <<"Close", CloseUnit>>>>)
    /\ state = AppState
    /\ capacity \in 1..MaxCapacity
    /\ reconnect_config \in Policies \cup {NoConfig}
    /\ pc = "Connecting"
    /\ current_url = UrlMain
    /\ retry_count = 0
    /\ delay = reconnect_config.initial_delay
    /\ result = "none"
    /\ reader = "Idle"
    /\ reader_result = NoResult
    /\ pending = <<>>
    /\ writer = "Idle"
    /\ chan = <<>>
    /\ shutdown_fired = FALSE
    /\ last_out = NoOut
    /\ slept = <<>>
    /\ ever_connected = FALSE
    /\ failures = 0
    /\ oks = <<>>
    /\ enqueued = <<>>
    /\ wire = <<>>
    /\ probe = NoProbe

\* The run when every await of run's own path returns: connect_async gives its
\* Ok or its Err, and a backoff sleep ends.
SpecLive ==
    /\ InitLive
    /\ [][Next]_vars
    /\ WF_vars(ConnectOk \/ ConnectFail)
    /\ WF_vars(BackoffWake)

---------------------------------------------------------------------------
\* The client runtime against the interface of its router alone: handle_message
\* gets whatever Response `router.handler(request).await` may be, of any Status,
\* or the dispatch panics.
RouterResponses == {Response(s, b) : s \in Status, b \in {<<>>, WssAlt}}

ReaderHandleAny ==
    /\ reader = "Reading"
    /\ Len(oks) < MaxOutbound
    /\ \E msg \in {Message("Text", <<49>>), Message("Binary", <<195>>)} :
          \/ \E resp \in RouterResponses :
                HandleMessage(Outcome(from_ws_message(msg), FALSE, resp, <<>>))
          \/ HandleMessage(Outcome(from_ws_message(msg), TRUE, PanicResponse, <<>>))

InitClient == Init /\ route = EmptyRoute /\ reconnect_config \in {NoConfig, SmallConfig}

NextClient ==
    \/ ConnectOk
    \/ ConnectFail
    \/ BackoffWake
    \/ FixedWake
    \/ SelectRecv
    \/ SelectSend
    \/ SelectShutdown
    \/ ShutdownSignal
    \/ ShutdownUnheard
    \/ ShutdownListenError
    \/ ReaderRecvEnd
    \/ ReaderHandleAny
    \/ ReaderResume
    \/ WriterSend
    \/ WriterClosed

SpecClient == InitClient /\ [][NextClient]_vars

---------------------------------------------------------------------------
(***************************************************************************)
(* The conversions on their own: an extractor, into_response,              *)
(* from_ws_message and into_ws_message applied to one argument.            *)
(***************************************************************************)
\* Strings: the bodies that are valid UTF-8
Strings == {b \in Bodies : Utf8From(b, 1)}

\* reasons of a close frame: "", "bye", a quote, a backslash and "1", U+00E9
Reasons == {<<>>, Bye, <<34>>, <<92, 49>>, <<195, 169>>}

\* close codes: those CloseCode::from gives for some u16, and two values of
\* the enum it gives for none
CloseCodes ==
    {CloseCodeFrom(c) : c \in {0, 1000, 1001, 2000, 3000, 4999, 65535}}
        \cup {CloseCode("Bad", 1000), CloseCode("Library", 3000)}

\* the messages a connection, or a caller, may hand to from_ws_message
Messages ==
    {Message("Text", b) : b \in Strings}
        \cup {Message(k, b) : k \in {"Binary", "Ping", "Pong", "Frame"}, b \in Bodies}
        \cup {CloseMessage(TNoClose)}
        \cup {CloseMessage(TCloseFrame(r, c)) : r \in Reasons, c \in CloseCodes}

\* bodies for the extractors: any bytes, JSON numbers good and bad, and
\* encodings of a CloseFrame, whole, cut short and with a code beyond u16
ProbeBodies ==
    Bodies \cup {<<48>>, <<48, 49>>, <<49, 48>>,
                 close_to_string(Bye, 1001),
                 close_to_string(<<34>>, 0),
                 SubSeq(close_to_string(Bye, 1001), 1, 20),
                 close_to_string(Bye, 65536),
                 close_to_string(<<195>>, 1000)}

RECURSIVE ReturnValues(_)
\* what a handler may return: the types of response.rs, nested up to n deep
ReturnValues(n) ==
    IF n = 0
    THEN {Unit, JsonMapValue}
            \cup {StatusValue(st) : st \in Status}
            \cup {PairValue(st, b) : st \in Status, b \in Strings}
            \cup {StringValue(b) : b \in Strings}
            \cup {JsonValue(k) : k \in {0, 7, 10}}
    ELSE LET inner == ReturnValues(n - 1)
         IN  inner \cup {OptionValue(FALSE, Unit)}
                   \cup {OptionValue(TRUE, v) : v \in inner}
                   \cup {ResultValue(isOk, v) : isOk \in BOOLEAN, v \in inner}

Probe(op, arg, out) == [op |-> op, arg |-> arg, out |-> out]

ClientVars ==
    <<route, state, capacity, reconnect_config, pc, current_url, retry_count,
      delay, result, reader, reader_result, pending, writer, chan,
      shutdown_fired, last_out, slept, ever_connected, failures, oks, enqueued,
      wire>>

\* T::call(&req, state) for one extractor
ExtractProbe ==
    /\ probe = NoProbe
    /\ \E ex \in {"String", "Json", "Close", "Binary"} :
       \E f \in Frames : \E b \in ProbeBodies :
          probe' = Probe("extract", <<ex, Request(f, b)>>,
                         FromMesasge(ex, Request(f, b), state))
    /\ UNCHANGED ClientVars

\* value.into_response()
ConvertProbe ==
    /\ probe = NoProbe
    /\ \E v \in ReturnValues(MaxNesting) :
          probe' = Probe("into_response", v, into_response(v))
    /\ UNCHANGED ClientVars

\* Request::from_ws_message(message)
ClassifyProbe ==
    /\ probe = NoProbe
    /\ \E m \in Messages : probe' = Probe("from_ws_message", m, from_ws_message(m))
    /\ UNCHANGED ClientVars

\* Request::from_ws_message(message).into_ws_message()
RoundTripProbe ==
    /\ probe = NoProbe
    /\ \E m \in Messages :
          probe' = Probe("round_trip", m, into_ws_message(from_ws_message(m)))
    /\ UNCHANGED ClientVars

\* Close::call(&Request::from_ws_message(message), state)
CloseTripProbe ==
    /\ probe = NoProbe
    /\ \E m \in {x \in Messages : x.kind = "Close"} :
          probe' = Probe("close_trip", m, CloseCall(from_ws_message(m), state))
    /\ UNCHANGED ClientVars

\* the caller is done with the value
DropProbe ==
    /\ probe # NoProbe
    /\ probe' = NoProbe
    /\ UNCHANGED ClientVars

NextConvert ==
    \/ ExtractProbe
    \/ ConvertProbe
    \/ ClassifyProbe
    \/ RoundTripProbe
    \/ CloseTripProbe
    \/ DropProbe

SpecConvert == InitRouter /\ [][NextConvert]_vars

(***************************************************************************)
(* Properties of the router                                                *)
(***************************************************************************)
Dispatched == last_out.kind = "dispatch"

\* the handlers of the dispatched request's kind, and what each returns for it
ChainOf(out) == route[out.req.path]
ChainCall(out, i) == Call(ChainOf(out)[i], out.req, state)
OkIndexes(out) ==
    {i \in 1..Len(ChainOf(out)) : ~ChainCall(out, i).panic
                                    /\ ChainCall(out, i).resp.status = "OK"}

\* C1: a dispatch to a kind with at least one handler returns the Response of
\* the first handler, in registration order, whose status is OK; when no handler
\* of the kind returns OK it returns NotFound with the body of the last handler.
C1_FirstOkWins ==
    (Dispatched /\ ~last_out.panic /\ ChainOf(last_out) # <<>>) =>
        LET okIdx == OkIndexes(last_out)
            n == Len(ChainOf(last_out))
        IN  IF okIdx # {}
            THEN LET first == CHOOSE i \in okIdx : \A j \in okIdx : i <= j
                 IN  last_out.resp = ChainCall(last_out, first).resp
            ELSE last_out.resp = Response("NotFound", ChainCall(last_out, n).resp.body)

\* a chain of two whose first handler fails and whose second returns OK
C1_Witness ==
    /\ Dispatched
    /\ ~last_out.panic
    /\ Len(ChainOf(last_out)) = 2
    /\ ChainCall(last_out, 1).resp.status = "JsonError"
    /\ ChainCall(last_out, 2).resp.status = "OK"
    /\ last_out.resp.status = "OK"
    /\ last_out.resp.body # <<>>

\* ... and a chain whose handlers all fail, the last with a body to surface
C1_WitnessNoneOk ==
    /\ Dispatched
    /\ ~last_out.panic
    /\ Len(ChainOf(last_out)) = 2
    /\ OkIndexes(last_out) = {}
    /\ ChainCall(last_out, 1).resp.status = "Reconnect"
    /\ last_out.resp = Response("NotFound", <<LitNotFound>>)

\* C2: a dispatch to a kind with no handler, of a request whose body is valid
\* UTF-8, returns NotFountPath with the request's payload as body and calls no
\* handler.
C2_NoRouteEchoesBody ==
    (Dispatched /\ ChainOf(last_out) = <<>> /\ Utf8From(last_out.req.body, 1)) =>
        /\ ~last_out.panic
        /\ last_out.resp = Response("NotFountPath", last_out.req.body)
        /\ last_out.calls = <<>>

C2_Witness ==
    /\ Dispatched
    /\ ChainOf(last_out) = <<>>
    /\ HandlerCount(route) > 0
    /\ last_out.req.body = <<195, 169>>
    /\ last_out.resp = Response("NotFountPath", <<195, 169>>)

\* what one call of the chain ran, against the handler's declaration
CallInOrder(h, req, c) ==
    LET t == c.trace
        n == Len(h.params)
        e(j) == FromMesasge(h.params[j], req, state)
        final == t[Len(t)]
    IN  /\ Len(t) >= 1
        /\ Len(t) <= n + 1
        \* every step but the last is a successful extraction, in declared order
        /\ \A j \in 1..(Len(t) - 1) :
              t[j].ev = "extract" /\ t[j].idx = j /\ t[j].ok /\ e(j).ok
        \* the last step is the body, after all n extractions, with their values
        \* in declared order, or the first failing extraction, whose rejection
        \* is the Response
        /\ \/ /\ final.ev = "body"
              /\ Len(t) = n + 1
              /\ Len(final.args) = n
              /\ \A j \in 1..n : final.args[j] = e(j).val
              /\ ~c.panic
           \/ /\ final.ev = "extract"
              /\ final.idx = Len(t)
              /\ ~final.ok
              /\ ~e(Len(t)).ok
              /\ c.panic = e(Len(t)).panic
              /\ ~c.panic => c.resp = into_response(e(Len(t)).rej)

\* C3: a handler's extractors run in declared parameter order; the first one
\* that fails ends the call with its rejection as the Response, no further
\* extractor runs and the body is not invoked; the body runs only after all
\* extractions succeeded and gets the extracted values positionally.
C3_ExtractionOrder ==
    Dispatched =>
        \A i \in 1..Len(last_out.calls) :
            CallInOrder(ChainOf(last_out)[i], last_out.req, last_out.calls[i])

\* a two-parameter handler whose first extraction succeeded and whose second
\* failed, followed in the chain by one whose body got two values
C3_Witness ==
    /\ Dispatched
    /\ Len(last_out.calls) = 2
    /\ ChainOf(last_out) = <<StringJson, StateString>>
    /\ Len(last_out.calls[1].trace) = 2
    /\ last_out.calls[1].trace[1].ok
    /\ ~last_out.calls[1].trace[2].ok
    /\ last_out.calls[1].resp.status = "JsonError"
    /\ last_out.calls[2].trace[3].ev = "body"
    /\ last_out.calls[2].trace[3].args = <<AppState, <<195, 169>>>>

(***************************************************************************)
(* Properties of the client runtime                                        *)
(***************************************************************************)
\* some handler of the dispatched chain returned resp
HandlerReturned(out, resp) ==
    \E i \in 1..Len(out.calls) : ~out.calls[i].panic /\ out.calls[i].resp = resp

\* C4: when a registered handler returns {Reconnect, "wss://alt"} for an inbound
\* frame, the reader reports the reconnect with that URL, and run leaves the
\* connection for the fixed sleep and then connects to "wss://alt", with the
\* retry counter as it was.
C4_HandlerReconnect ==
    [][/\ (Dispatched' /\ HandlerReturned(last_out', Response("Reconnect", WssAlt)))
            => (reader' = "Done" /\ reader_result' = ReaderResult(TRUE, SomeUrl(WssAlt)))
       /\ (/\ pc = "Connected"
           /\ pc' \notin {"Connected", "Terminated"}
           /\ reader = "Done"
           /\ reader_result = ReaderResult(TRUE, SomeUrl(WssAlt)))
            => (pc' = "FixedSleep" /\ current_url' = WssAlt /\ retry_count' = retry_count)
       /\ pc = "FixedSleep"
            => (pc' \in {"FixedSleep", "Connecting"}
                /\ UNCHANGED <<current_url, retry_count, delay, slept>>)]_vars

IsPrefix(s, t) == Len(s) <= Len(t) /\ \A i \in 1..Len(s) : s[i] = t[i]

DefaultBackoffDelays == <<1500, 2250, 3375, 5062, 7593, 11389, 17083, 25624>>

\* C5 (as amended): with the default policy (initial_delay 1000, factor 1.5,
\* max_delay 30000, max_retries 8) and every connect attempt failing, the delays
\* slept after the 1st, ..., 8th failure are 1500, 2250, 3375, 5062, 7593, 11389,
\* 17083, 25624 ms, in that order.
C5_BackoffSequence ==
    (reconnect_config = DefaultConfig /\ ~ever_connected) =>
        IsPrefix(slept, DefaultBackoffDelays)

C5_Witness ==
    /\ reconnect_config = DefaultConfig
    /\ ~ever_connected
    /\ pc = "BackoffSleep"
    /\ slept = DefaultBackoffDelays

\* C5 as stated: the delays are 1000, 1500, 2250, 3375, 5062 (or 5063), 7593 (or
\* 7594), 11390, 17084.
ClaimedBackoffDelays ==
    <<{1000}, {1500}, {2250}, {3375}, {5062, 5063}, {7593, 7594}, {11390}, {17084}>>

C5_AsStated ==
    (reconnect_config = DefaultConfig /\ ~ever_connected) =>
        /\ Len(slept) <= Len(ClaimedBackoffDelays)
        /\ \A i \in 1..Len(slept) : slept[i] \in ClaimedBackoffDelays[i]

\* C6: with a policy, the connect failure that finds retry_count >= max_retries
\* makes run return MaxRetriesExceeded, with no sleep and no further attempt:
\* that failure is the (max_retries + 1)-th, each earlier one was counted and
\* slept for.
C6_MaxRetriesExceeded ==
    reconnect_config.some =>
        /\ failures <= reconnect_config.max_retries + 1
        /\ (failures = reconnect_config.max_retries + 1) <=> (result = "MaxRetriesExceeded")
        /\ result = "MaxRetriesExceeded" =>
              /\ pc = "Terminated"
              /\ retry_count = reconnect_config.max_retries
              /\ Len(slept) = reconnect_config.max_retries
        /\ result # "MaxRetriesExceeded" =>
              /\ retry_count = failures
              /\ Len(slept) = failures

C6_Witness ==
    /\ reconnect_config = DefaultConfig
    /\ ~ever_connected
    /\ result = "MaxRetriesExceeded"
    /\ failures = 9

\* C7: without a policy a connect failure, the first attempt's or a later one's,
\* makes run return the transport error at once: no sleep, no retry.
C7_NoPolicyFatal ==
    (~reconnect_config.some /\ failures > 0) =>
        /\ pc = "Terminated"
        /\ result = "WsError"
        /\ failures = 1
        /\ retry_count = 0
        /\ slept = <<>>

C7_Witness ==
    /\ ~reconnect_config.some
    /\ ever_connected
    /\ failures = 1
    /\ result = "WsError"

\* C8: while a connection is live, once the shutdown signal has fired the next
\* step of run is to return Ok, also when the reader's or the writer's
\* completion is ready at the same moment.
C8_ShutdownWins ==
    [][(pc = "Connected" /\ shutdown_fired /\ pc' # pc)
            => (pc' = "Terminated" /\ result' = "Ok")]_vars

C10_ReaderSurvives ==
    (Dispatched /\ RxOpen /\ (last_out.panic \/ ~is_reconnect(last_out.resp.status)))
        => reader \in {"Reading", "Sending"}

(***************************************************************************)
(* Properties of extraction, conversion and classification                 *)
(***************************************************************************)
\* the body is serde_json's encoding of a CloseFrame { reason, code }
WellFormedClose(body) ==
    /\ Utf8From(body, 1)
    /\ close_from_str(body).ok

\* C11: for a Close request whose body is not empty and is no well-formed
\* encoding of {reason, code}, a handler that extracts Close does not crash: its
\* call ends with an error Response (JsonError or FromStringError) and the
\* dispatch returns.
C11_CloseMalformedRecoverable ==
    (/\ Dispatched
     /\ last_out.req.path = "Close"
     /\ ChainOf(last_out) # <<>>
     /\ ChainOf(last_out)[1].params = <<"Close">>
     /\ last_out.req.body # <<>>
     /\ ~WellFormedClose(last_out.req.body))
        => /\ ~last_out.panic
           /\ last_out.calls[1].resp.status \in {"JsonError", "FromStringError"}

(***************************************************************************)
(* Properties of the channel between reader and writer                     *)
(***************************************************************************)
\* C12: on a connection the bodies put into the channel are the bodies of the
\* OK dispatches in the order of their frames (all of them while the reader is
\* reading, all but the one it is blocked on while it waits for room), and the
\* writer passes them to the transport in that order, each once: what it has
\* sent followed by what is queued is what was put in.
C12_FifoOrder ==
    /\ IsPrefix(enqueued, oks)
    /\ IsPrefix(wire, enqueued)
    /\ reader = "Reading" => enqueued = oks
    /\ reader = "Sending" => Append(enqueued, pending) = oks
    /\ writer = "Running" => wire \o chan = enqueued

\* three different bodies went through a full channel and out, in order
C12_Witness ==
    /\ Len(wire) = 3
    /\ wire = oks
    /\ wire[1] # wire[2]
    /\ wire[2] # wire[3]
    /\ capacity = 2

\* the step is connect_async succeeding: the tasks and the channel of a new
\* connection take the place of the previous ones
NewConnection == pc = "Connecting" /\ pc' = "Connected"

\* C13: the channel never holds more than `capacity` messages.  An OK dispatch
\* that finds it full leaves the reader blocked on that message; while blocked
\* the reader dispatches nothing; it goes back to reading only by putting the
\* message into the channel, which then has room, and gives up only when the
\* receiver is gone: no message is dropped for lack of room.  (Steps within
\* one connection.)
C13_Backpressure ==
    /\ [](Len(chan) <= capacity)
    /\ [][/\ (/\ reader = "Reading"
              /\ Dispatched'
              /\ ~last_out'.panic
              /\ is_success(last_out'.resp.status)
              /\ RxOpen
              /\ Len(chan) = capacity)
                => (/\ reader' = "Sending"
                    /\ pending' = last_out'.resp.body
                    /\ chan' = chan)
          /\ reader = "Sending" => ~Dispatched'
          /\ (reader = "Sending" /\ reader' = "Reading" /\ ~NewConnection)
                => (Len(chan) < capacity /\ chan' = Append(chan, pending))
          /\ (reader = "Sending" /\ reader' \notin {"Sending", "Reading"})
                => ~RxOpen]_vars

\* the reader is blocked on a full channel of two, the writer is there
C13_Witness ==
    /\ reader = "Sending"
    /\ RxOpen
    /\ capacity = 2
    /\ Len(chan) = capacity
    /\ oks = chan \o <<pending>>

\* C14: when run leaves a live connection because the writer finished, or the
\* reader finished without asking for a reconnect (or was aborted), and not by
\* the shutdown() branch of the select!, it does not return: it is back at
\* connect_async with the same URL, retry_count and delay.
C14_ConnectionEndReconnects ==
    [][(/\ pc = "Connected"
        /\ pc' # "Connected"
        /\ ~shutdown_fired
        /\ ~(pc' = "Terminated" /\ result' = "Ok")
        /\ ~(reader = "Done" /\ reader_result.reconnect))
            => (/\ pc' = "Connecting"
                /\ result' = "none"
                /\ UNCHANGED <<current_url, retry_count, delay, slept>>)]_vars

\* a connection made after one failed attempt has ended with the reader's
\* (false, None); run is connecting again with the bookkeeping of that failure
C14_Witness ==
    /\ pc = "Connecting"
    /\ ever_connected
    /\ reader = "Done"
    /\ reader_result = ReaderResult(FALSE, NoUrl)
    /\ current_url = UrlMain
    /\ retry_count = 1
    /\ delay = 200
    /\ result = "none"

\* C15: the Json extractor looks at the encoding before the JSON: a body that
\* is not UTF-8 is rejected with FromStringError, a UTF-8 body that is no JSON
\* of the target type with JsonError, and any other body gives the decoded
\* value; the rejection's Response has the status of the same name.
C15_JsonUtf8BeforeJson ==
    (probe.op = "extract" /\ probe.arg[1] = "Json") =>
        LET body == probe.arg[2].body
            out == probe.out
        IN  /\ ~out.panic
            /\ IF ~Utf8From(body, 1)
               THEN /\ ~out.ok
                    /\ out.rej = ExtractError("FromStringError")
                    /\ into_response(out.rej).status = "FromStringError"
               ELSE IF ~json_from_str(body).ok
               THEN /\ ~out.ok
                    /\ out.rej = ExtractError("JsonError")
                    /\ into_response(out.rej).status = "JsonError"
               ELSE /\ out.ok
                    /\ out.val = json_from_str(body).val

\* a body that is neither UTF-8 nor JSON was rejected for its encoding
C15_Witness ==
    /\ probe.op = "extract"
    /\ probe.arg[1] = "Json"
    /\ probe.arg[2].body = <<195>>
    /\ probe.out = Rejected("FromStringError")

\* C16: a handler of the chain that does not return OK (a failed extraction, a
\* not-found) does not end the dispatch: the next handler of the kind is called
\* with the same request, up to the first that returns OK, whose Response is
\* the result.
C16_ChainContinues ==
    (Dispatched /\ ~last_out.panic /\ ChainOf(last_out) # <<>>) =>
        LET n == Len(ChainOf(last_out))
            k == Len(last_out.calls)
        IN  /\ k >= 1
            /\ k <= n
            /\ \A i \in 1..k : last_out.calls[i] = ChainCall(last_out, i)
            /\ \A i \in 1..(k - 1) : last_out.calls[i].resp.status # "OK"
            /\ k < n => last_out.calls[k].resp.status = "OK"
            /\ last_out.calls[k].resp.status = "OK" => last_out.resp = last_out.calls[k].resp

\* the first handler rejected the body as no String, the second returned OK
C16_Witness ==
    /\ Dispatched
    /\ ChainOf(last_out) = <<EchoString, StateOnly>>
    /\ Len(last_out.calls) = 2
    /\ last_out.calls[1].resp.status = "FromStringError"
    /\ last_out.calls[2].resp = Response("OK", AppState)
    /\ last_out.resp = Response("OK", AppState)

\* the Response the conversion table gives for a return value
RECURSIVE ClaimedResponse(_)
ClaimedResponse(v) ==
    CASE v.t = "unit" -> [status |-> "NoContent", body |-> <<>>]
      [] v.t = "status" -> [status |-> v.status, body |-> <<>>]
      [] v.t = "pair" -> [status |-> v.status, body |-> v.body]
      [] v.t = "string" -> [status |-> "OK", body |-> v.body]
      [] v.t = "result" -> ClaimedResponse(v.inner)
      [] v.t = "option" ->
            IF v.some THEN ClaimedResponse(v.inner)
            ELSE [status |-> "NotFound", body |-> <<LitNotFound>>]
      [] v.t = "json" -> [status |-> "OK", body |-> DecDigits(v.payload)]
      [] v.t = "json_map" -> [status |-> "JsonError", body |-> <<LitKeyMustBeString>>]

\* C17: into_response is total on the return types and gives: unit
\* {NoContent, ""}; a Status s {s, ""}; a pair (s, b) {s, b}; a string b
\* {OK, b}; a Result the conversion of the arm it holds; Some(v) the conversion
\* of v and None {NotFound, "Not Found"}; Json {OK, the serialized payload},
\* or {JsonError, the error's text} when the payload does not serialize.
C17_IntoResponseTable ==
    probe.op = "into_response" =>
        /\ probe.out.status \in Status
        /\ probe.out = ClaimedResponse(probe.arg)

\* Err(Some((NotImplemented, "1"))) went through two wrappers
C17_Witness ==
    /\ probe.op = "into_response"
    /\ probe.arg = ResultValue(FALSE, OptionValue(TRUE, PairValue("NotImplemented", <<49>>)))
    /\ probe.out = Response("NotImplemented", <<49>>)

\* C18: from_ws_message has no error case.  Text, Binary, Ping and Pong give
\* the kind of the same name with the message's bytes as body; Close gives
\* Close with the encoding of {reason, code} as body, the empty body when the
\* close has no frame; a raw frame gives Binary with its payload.
C18_ClassificationTotal ==
    probe.op = "from_ws_message" =>
        LET m == probe.arg
            r == probe.out
        IN  /\ r.path \in Frames
            /\ m.kind \in {"Text", "Binary", "Ping", "Pong"}
                  => r = [path |-> m.kind, body |-> m.data]
            /\ m.kind = "Frame" => r = [path |-> "Binary", body |-> m.data]
            /\ (m.kind = "Close" /\ ~m.close.some) => r = [path |-> "Close", body |-> <<>>]
            /\ (m.kind = "Close" /\ m.close.some) =>
                  /\ r.path = "Close"
                  /\ r.body = CloseOpen \o JsonEscape(m.close.reason) \o CloseMid
                                  \o DecDigits(m.close.code.code) \o <<125>>
                  /\ WellFormedClose(r.body)

\* a raw frame with a payload that is no String became a Binary request
C18_Witness ==
    /\ probe.op = "from_ws_message"
    /\ probe.arg.kind = "Frame"
    /\ probe.arg.data = <<195>>
    /\ probe.out = Request("Binary", <<195>>)

\* the close code is the value CloseCode::from gives for its u16, as the code
\* of every message read from a connection is
CanonicalCode(m) ==
    (m.kind = "Close" /\ m.close.some)
        => CloseCodeFrom(CloseCodeInto(m.close.code)) = m.close.code

\* C19 (as amended): for every Text, Binary, Ping, Pong or Close message m,
\* Close with or without a frame, whose close code is the CloseCode that
\* CloseCode::from gives for its number, into_ws_message(from_ws_message(m))
\* is m.
C19_MessageRoundTrip ==
    (/\ probe.op = "round_trip"
     /\ probe.arg.kind \in {"Text", "Binary", "Ping", "Pong", "Close"}
     /\ CanonicalCode(probe.arg))
        => probe.out = probe.arg

\* a close whose reason needs escaping came back as it was
C19_Witness ==
    /\ probe.op = "round_trip"
    /\ probe.arg = CloseMessage(TCloseFrame(<<92, 49>>, CloseCode("Iana", 3000)))
    /\ probe.out = probe.arg

\* C19 as stated: for every Text, Binary, Ping, Pong or Close message m,
\* into_ws_message(from_ws_message(m)) is m.
C19_AsStated ==
    (/\ probe.op = "round_trip"
     /\ probe.arg.kind \in {"Text", "Binary", "Ping", "Pong", "Close"})
        => probe.out = probe.arg

\* {"reason":"bye","code":1001}
ByeBody ==
    <<123, 34, 114, 101, 97, 115, 111, 110, 34, 58, 34, 98, 121, 101, 34, 44, 34,
      99, 111, 100, 101, 34, 58, 49, 48, 48, 49, 125>>

\* C20: classifying a Close message that carries {reason, code} and applying
\* the Close extractor to the Request gives Some{reason, code} with the same
\* reason and the same 16-bit code; for a Close message without frame the body
\* is empty and the extractor gives None.
C20_CloseRoundTrip ==
    probe.op = "close_trip" =>
        LET m == probe.arg
        IN  IF m.close.some
            THEN probe.out = Extracted(SomeClose(m.close.reason, m.close.code.code))
            ELSE /\ from_ws_message(m).body = <<>>
                 /\ probe.out = Extracted(NoClose)

\* reason "bye", code 1001 went through the body {"reason":"bye","code":1001}
C20_Witness ==
    /\ probe.op = "close_trip"
    /\ probe.arg = CloseMessage(TCloseFrame(Bye, CloseCodeFrom(1001)))
    /\ from_ws_message(probe.arg).body = ByeBody
    /\ probe.out = Extracted(SomeClose(Bye, 1001))

(***************************************************************************)
(* Properties of the shared context, the order of calls and registration   *)
(***************************************************************************)
\* C21: in every dispatch every handler called gets the context the router
\* was built with, and hands it to each of its extractors; the State extractor
\* does not fail and its value, as the body receives it, is that context.
C21_SharedContext ==
    /\ state = AppState
    /\ Dispatched =>
          \A i \in 1..Len(last_out.calls) :
             LET c == last_out.calls[i]
             IN  /\ c.st = AppState
                 /\ \A j \in 1..Len(c.trace) :
                       (c.trace[j].ev = "extract" /\ c.h.params[j] = "State")
                            => c.trace[j].ok
                 /\ \A j \in 1..Len(c.trace) :
                       c.trace[j].ev = "body" =>
                            \A k \in 1..Len(c.h.params) :
                               c.h.params[k] = "State" => c.trace[j].args[k] = AppState

\* the second handler of a chain, called after the first had failed, got the
\* context and put it in front of the request's text
C21_Witness ==
    /\ Dispatched
    /\ ChainOf(last_out) = <<NoneString, StateString>>
    /\ Len(last_out.calls) = 2
    /\ last_out.calls[2].trace[3].args = <<AppState, <<49>>>>
    /\ last_out.resp = Response("OK", AppState \o <<49>>)

\* C22: a dispatch calls the handlers registered for the request's kind, in
\* registration order from the first on, each once and with the request
\* dispatched; it calls none after the first that returned OK (or aborted), and
\* none of another kind.
C22_CallsInRegistrationOrder ==
    Dispatched =>
        LET chain == route[last_out.req.path]
            k == Len(last_out.calls)
        IN  /\ k <= Len(chain)
            /\ \A i \in 1..k :
                  /\ last_out.calls[i].h = chain[i]
                  /\ last_out.calls[i].req = last_out.req
            /\ \A i \in 1..(k - 1) :
                  ~last_out.calls[i].panic /\ last_out.calls[i].resp.status # "OK"
            /\ (k < Len(chain)) =>
                  (last_out.calls[k].panic \/ last_out.calls[k].resp.status = "OK")

\* a Binary request was dispatched by a router that also has a Text handler:
\* the Binary handler alone was called
C22_Witness ==
    /\ Dispatched
    /\ last_out.req.path = "Binary"
    /\ route["Text"] = <<EchoString>>
    /\ route["Binary"] = <<BytesUnit("Binary")>>
    /\ Len(last_out.calls) = 1
    /\ last_out.calls[1].h = BytesUnit("Binary")

\* C30: a registration for kind K puts the handler at the end of K's list and
\* leaves the lists of the other kinds, and the entries K had, as they were; a
\* dispatch leaves the route table as it was.
C30_AppendOnly ==
    [][/\ route' # route =>
             \E K \in Frames :
                /\ Len(route'[K]) = Len(route[K]) + 1
                /\ SubSeq(route'[K], 1, Len(route[K])) = route[K]
                /\ \A F \in Frames \ {K} : route'[F] = route[F]
       /\ Dispatched' => route' = route]_vars

\* two registrations for Text and one dispatch later, the list is in the
\* order of the registrations
C30_Witness ==
    /\ Dispatched
    /\ route["Text"] = <<NoneString, EchoString>>
    /\ last_out.req.path = "Text"
    /\ Len(last_out.calls) = 2

(***************************************************************************)
(* Properties of the reader's handling of a Response                       *)
(***************************************************************************)
\* C23: a dispatch whose status is neither OK nor Reconnect puts nothing into
\* the channel and reports nothing: after it the reader is reading the next
\* frame of the same connection.
C23_ErrorStatusContinues ==
    [][(/\ Dispatched'
        /\ ~last_out'.panic
        /\ last_out'.resp.status \notin {"OK", "Reconnect"})
            => (/\ reader = "Reading"
                /\ reader' = "Reading"
                /\ UNCHANGED <<chan, enqueued, pending, reader_result, oks, pc,
                               current_url, writer>>)]_vars

\* after an OK dispatch whose body is still queued, a NotImplemented one left
\* the reader reading
C23_Witness ==
    /\ Dispatched
    /\ ~last_out.panic
    /\ last_out.resp.status = "NotImplemented"
    /\ reader = "Reading"
    /\ reader_result = NoResult
    /\ Len(chan) = 1
    /\ enqueued = chan

\* C24: a dispatch whose status is OK puts the response body into the channel,
\* once (at once, or as the message the reader is blocked on while the channel
\* is full); when the receiver is gone it puts nothing and the reader ends
\* with (false, None).
C24_OkEnqueuesOnce ==
    [][/\ (/\ Dispatched'
           /\ ~last_out'.panic
           /\ last_out'.resp.status = "OK")
              => IF RxOpen
                 THEN \/ /\ chan' = Append(chan, last_out'.resp.body)
                         /\ enqueued' = Append(enqueued, last_out'.resp.body)
                         /\ reader' = "Reading"
                         /\ pending' = pending
                      \/ /\ Len(chan) = capacity
                         /\ reader' = "Sending"
                         /\ pending' = last_out'.resp.body
                         /\ UNCHANGED <<chan, enqueued>>
                 ELSE /\ reader' = "Done"
                      /\ reader_result' = ReaderResult(FALSE, NoUrl)
                      /\ UNCHANGED <<chan, enqueued>>
       /\ (reader = "Sending" /\ ~RxOpen /\ reader' # reader /\ ~NewConnection)
              => (/\ reader' = "Done"
                  /\ reader_result' = ReaderResult(FALSE, NoUrl)
                  /\ UNCHANGED <<chan, enqueued>>)]_vars

\* the writer had stopped on a send error; the OK dispatch that followed ended
\* the reader
C24_Witness ==
    /\ Dispatched
    /\ ~last_out.panic
    /\ last_out.resp.status = "OK"
    /\ writer = "Done"
    /\ reader = "Done"
    /\ reader_result = ReaderResult(FALSE, NoUrl)
    /\ Len(oks) = Len(enqueued) + 1

C26_SuccessResetsNothing ==
    [][/\ NewConnection => UNCHANGED <<retry_count, delay, slept>>
       /\ (pc = "Connecting" /\ pc' = "BackoffSleep") =>
             /\ retry_count' = retry_count + 1
             /\ delay' = calculate_next_delay(delay, reconnect_config.backoff_factor,
                                              reconnect_config.max_delay)
       /\ (pc = "Connected" /\ pc' = "Connecting")
             => UNCHANGED <<retry_count, delay, slept>>]_vars

\* connected at the second attempt: the count and the delay of the first
\* failure are still there
C26_Witness ==
    /\ pc = "Connected"
    /\ reconnect_config = DefaultConfig
    /\ retry_count = 1
    /\ delay = 1500
    /\ slept = <<1500>>

C28_ShutdownAbandonsWork ==
    [][(pc = "Terminated" /\ result = "Ok" /\ shutdown_fired)
            => (~Dispatched' /\ wire' = wire)]_vars

\* C29: a shutdown signal that arrives while run is in the backoff sleep or in
\* the fixed sleep ends the sleep: the next step of run is to return Ok.
C29_ShutdownEndsSleep ==
    [][(/\ pc \in {"BackoffSleep", "FixedSleep"}
        /\ shutdown_fired
        /\ pc' # pc)
            => (pc' = "Terminated" /\ result' = "Ok")]_vars

\* C31: a dispatch to a kind with no handler, of a request whose body is not
\* valid UTF-8, returns a Response with status NotFountPath; it does not fail.
C31_NoRouteInvalidUtf8 ==
    (Dispatched /\ ChainOf(last_out) = <<>> /\ ~Utf8From(last_out.req.body, 1)) =>
        /\ ~last_out.panic
        /\ last_out.resp.status = "NotFountPath"

\* C32: the status of a Response that a dispatch returns is OK, NotFound or
\* NotFountPath; when handlers ran and none returned OK it is NotFound, whatever
\* statuses they returned.
C32_DispatchStatuses ==
    (Dispatched /\ ~last_out.panic) =>
        /\ last_out.resp.status \in {"OK", "NotFound", "NotFountPath"}
        /\ last_out.resp.status = "NotFountPath" <=> ChainOf(last_out) = <<>>
        /\ (ChainOf(last_out) # <<>> /\ OkIndexes(last_out) = {})
              => last_out.resp.status = "NotFound"

\* two handlers ran, returning Reconnect and JsonError, and the dispatch
\* returned NotFound
C32_Witness ==
    /\ Dispatched
    /\ ~last_out.panic
    /\ Len(last_out.calls) = 2
    /\ {last_out.calls[1].resp.status, last_out.calls[2].resp.status}
          = {"Reconnect", "JsonError"}
    /\ last_out.resp.status = "NotFound"

\* C33: once run has left Connected to connect again, the reader and the writer
\* of the connection it left take no further step that dispatches an inbound
\* frame or passes an outbound message to the transport.
C33_TasksEndWithConnection ==
    [][(pc \in {"Connecting", "BackoffSleep", "FixedSleep"} /\ ~NewConnection)
            => (~Dispatched' /\ wire' = wire)]_vars

\* C34: with a policy, retry_count stays between 0 and max_retries and equals
\* the number of backoff sleeps begun so far, in every state of a run, and no
\* step of the run lowers it.
C34_RetryCountBounds ==
    /\ [](reconnect_config.some =>
             /\ 0 <= retry_count
             /\ retry_count <= reconnect_config.max_retries
             /\ Len(slept) = retry_count)
    /\ [][retry_count' >= retry_count]_vars

\* the retries were used up around a connection that dispatched frames: the
\* failure that ends the run comes after it
C34_Witness ==
    /\ reconnect_config = SmallConfig
    /\ result = "MaxRetriesExceeded"
    /\ oks # <<>>
    /\ retry_count = 2
    /\ Len(slept) = 2
    /\ failures = 3

C36_OkOnlyFromShutdown ==
    [][/\ (result' = "Ok" /\ result # "Ok") => (pc = "Connected" /\ shutdown_fired)
       /\ (result' # result /\ result' # "Ok") =>
             /\ pc = "Connecting"
             /\ failures' = failures + 1
             /\ result' = IF reconnect_config.some THEN "MaxRetriesExceeded"
                          ELSE "WsError"
       /\ pc = "Terminated" =>
             UNCHANGED <<pc, result, current_url, retry_count, delay, slept,
                         failures, ever_connected>>]_vars

\* C37: with a policy, a run in which no connection attempt ever succeeds ends
\* with MaxRetriesExceeded, at the (max_retries + 1)-th failed attempt and after
\* max_retries sleeps: with max_retries = 0 at the first failure, without sleep.
C37_EventuallyMaxRetries ==
    (reconnect_config.some /\ [](~ever_connected)) =>
        <>[](/\ pc = "Terminated"
             /\ result = "MaxRetriesExceeded"
             /\ failures = reconnect_config.max_retries + 1
             /\ Len(slept) = reconnect_config.max_retries)

\* the policy without retries: the first attempt has failed and run is over
C37_Witness ==
    /\ reconnect_config = NoRetryConfig
    /\ ~ever_connected
    /\ pc = "Terminated"
    /\ result = "MaxRetriesExceeded"
    /\ failures = 1
    /\ slept = <<>>

\* C38: connect_async succeeding starts the connection with an empty channel,
\* whatever the previous connection had left queued, and every message the
\* writer passes to the transport is the oldest one in the channel, put there
\* by the reader of the same connection.
C38_FreshChannel ==
    [][/\ NewConnection => (chan' = <<>> /\ pending' = <<>> /\ wire' = <<>>)
       /\ (wire' # wire /\ ~NewConnection) =>
             /\ chan # <<>>
             /\ wire' = Append(wire, Head(chan))
             /\ IsPrefix(wire', enqueued)
             /\ IsPrefix(enqueued, oks)]_vars

\* a connection has ended with two messages still queued for its writer, and
\* run is about to connect again
C38_Witness ==
    /\ pc = "Connecting"
    /\ ever_connected
    /\ result = "none"
    /\ writer = "Running"
    /\ Len(chan) = 2
    /\ enqueued = wire \o chan

====
